---------------------------- MODULE Spec2Model ----------------------------
(***************************************************************************)
(* Verification model of the memory-access benchmarks:                     *)
(*   exercice03/mxm_bloc.c  blocked / unblocked matrix multiplication and  *)
(*                          the block-size sweep driver (main);            *)
(*   exercice01/exercice1.c the stride experiment.                         *)
(*                                                                         *)
(* Three specifications share the variables below:                         *)
(*   SpecMul     the two multipliers run on the same inputs, one           *)
(*               multiply-accumulate per step;                             *)
(*   Spec        main() of mxm_bloc.c, statement by statement, a call of   *)
(*               a multiplier being one step;                              *)
(*   SpecStride  main() of exercice1.c.                                    *)
(* Matrix dimension and array length are scaled down; element values are   *)
(* integers, as in the program (rand() % 10 + 1 stored in a double), so    *)
(* every sum the program forms is exact.                                   *)
(***************************************************************************)
EXTENDS Integers, Sequences, FiniteSets, TLC

\* ---- bounds of the model (scaled-down sizes) ----
MaxN == 4          \* SpecMul: dimensions n in 1..MaxN
MaxGen == 2        \* rand() implementations tried: g in 0..MaxGen
MaxSeed == 5       \* SpecMul: inputs seeded with srand(0..MaxSeed)
N == 8             \* the driver's matrix dimension (#define N 512, scaled)
MaxElapsed == 2    \* a timed call advances the clock by 0..MaxElapsed
MaxAllocFailures == 1  \* malloc calls that may return NULL in one run
NTouch == 3        \* exercice1's N (1000000, scaled)

\* ---- program constants ----
MAX_STRIDE == 20

VARIABLES
  pc,          \* position of the running program
  mem,         \* contents of the matrices: mem[m][i][j], m in {"A","B","C"}
  ub,          \* an access with undefined behaviour has been executed
  \* -- SpecMul
  n,           \* dimension passed to the multipliers
  block_size,  \* block size (SpecMul: argument; Spec: block_sizes[bs_idx])
  pos,         \* multiply-accumulate steps done by the running multiplier
  trace,       \* the steps done, in order: [ii, jj, kk, i, k, j]
  blkC,        \* C as matrix_multiply_blocked left it
  blkTrace,    \* the steps matrix_multiply_blocked did
  \* -- Spec (driver)
  gen,         \* which rand() implementation the C library has
  randState,   \* rand()'s internal state
  tab,         \* tab[m]: state of the row-pointer table of matrix m
  row,         \* row[m][i]: state of row buffer i of matrix m
  allocLog,    \* blocks malloc returned, in order
  freeLog,     \* blocks passed to free, in order
  nullsLeft,   \* malloc failures still allowed in this run
  li, lj,      \* loop counters i, j of main
  bs_idx,      \* sweep loop counter
  clk,         \* processor time
  start,       \* clock sample before the timed call
  standard_time,
  stWrites,    \* history: values of bs_idx at which standard_time was assigned
  out,         \* records printed so far
  fp,          \* "closed", "open"
  exitStatus,  \* -1 while running
  diag,        \* diagnostics printed
  phases,      \* history: phases of main entered, in order
  lateAccess,  \* history: a matrix element was accessed after the first free
  \* -- SpecStride
  a,           \* the array: a[i] in {Indet, 1}; <<>> before malloc
  aState,      \* "none", "null", "live", "freed"
  i_stride,
  si,          \* loop counter i of exercice1's main
  sum,
  reads        \* history: indices read in the current stride's loop

vars == <<pc, mem, ub, n, block_size, pos, trace, blkC, blkTrace,
          gen, randState, tab, row, allocLog, freeLog, nullsLeft, li, lj,
          bs_idx, clk, start, standard_time, stWrites, out, fp, exitStatus,
          diag, phases, lateAccess, a, aState, i_stride, si, sum, reads>>

mulVars == <<n, block_size, pos, trace, blkC, blkTrace>>
drvVars == <<gen, randState, tab, row, allocLog, freeLog, nullsLeft, li, lj,
             bs_idx, clk, start, standard_time, stWrites, out, fp,
             exitStatus, diag, phases, lateAccess>>
strVars == <<a, aState, i_stride, si, sum, reads>>

Mats == {"A", "B", "C"}
Indet == 0 - 1     \* an indeterminate (never written) element

\* ------------------------------------------------------------------------
\* mxm_bloc.c: the multipliers
\* ------------------------------------------------------------------------

minNoClamp(x, y) == x

min(x, y) == IF x < y THEN x ELSE y

Step(ii, jj, kk, i, k, j) ==
  [ii |-> ii, jj |-> jj, kk |-> kk, i |-> i, k |-> k, j |-> j]

\* for (int j = jj; j < min(jj + block_size, n); j++)  -- line 21
RECURSIVE BlkLoopJ(_, _, _, _, _, _, _, _)
BlkLoopJ(ii, jj, kk, i, k, j, nn, S) ==
  IF j < min(jj + S, nn)
    THEN <<Step(ii, jj, kk, i, k, j)>> \o BlkLoopJ(ii, jj, kk, i, k, j + 1, nn, S)
    ELSE <<>>

\* for (int k = kk; k < min(kk + block_size, n); k++)  -- line 20
RECURSIVE BlkLoopK(_, _, _, _, _, _, _)
BlkLoopK(ii, jj, kk, i, k, nn, S) ==
  IF k < min(kk + S, nn)
    THEN BlkLoopJ(ii, jj, kk, i, k, jj, nn, S) \o BlkLoopK(ii, jj, kk, i, k + 1, nn, S)
    ELSE <<>>

\* for (int i = ii; i < min(ii + block_size, n); i++)  -- line 19
RECURSIVE BlkLoopI(_, _, _, _, _, _)
BlkLoopI(ii, jj, kk, i, nn, S) ==
  IF i < min(ii + S, nn)
    THEN BlkLoopK(ii, jj, kk, i, kk, nn, S) \o BlkLoopI(ii, jj, kk, i + 1, nn, S)
    ELSE <<>>

\* a plausible slip: the boundary tile along the reduction axis is dropped
RECURSIVE BlkLoopKKFullTilesOnly(_, _, _, _, _)
BlkLoopKKFullTilesOnly(ii, jj, kk, nn, S) ==
  IF kk + S <= nn
    THEN BlkLoopI(ii, jj, kk, ii, nn, S) \o BlkLoopKKFullTilesOnly(ii, jj, kk + S, nn, S)
    ELSE <<>>

\* for (int kk = 0; kk < n; kk += block_size)  -- line 16
RECURSIVE BlkLoopKK(_, _, _, _, _)
BlkLoopKK(ii, jj, kk, nn, S) ==
  IF kk < nn
    THEN BlkLoopI(ii, jj, kk, ii, nn, S) \o BlkLoopKK(ii, jj, kk + S, nn, S)
    ELSE <<>>

\* for (int jj = 0; jj < n; jj += block_size)  -- line 15
RECURSIVE BlkLoopJJ(_, _, _, _)
BlkLoopJJ(ii, jj, nn, S) ==
  IF jj < nn
    THEN BlkLoopKK(ii, jj, 0, nn, S) \o BlkLoopJJ(ii, jj + S, nn, S)
    ELSE <<>>

\* for (int ii = 0; ii < n; ii += block_size)  -- line 14
RECURSIVE BlkLoopII(_, _, _)
BlkLoopII(ii, nn, S) ==
  IF ii < nn
    THEN BlkLoopJJ(ii, 0, nn, S) \o BlkLoopII(ii + S, nn, S)
    ELSE <<>>

\* The multiply-accumulate statements matrix_multiply_blocked executes, in
\* order (its loop control reads no matrix element).
BlockedSchedule(nn, S) == BlkLoopII(0, nn, S)

\* matrix_multiply_standard; its steps carry the tile 0,0,0.
RECURSIVE StdLoopJ(_, _, _, _)
StdLoopJ(i, k, j, nn) ==
  IF j < nn
    THEN <<Step(0, 0, 0, i, k, j)>> \o StdLoopJ(i, k, j + 1, nn)
    ELSE <<>>

RECURSIVE StdLoopK(_, _, _)
StdLoopK(i, k, nn) ==
  IF k < nn
    THEN StdLoopJ(i, k, 0, nn) \o StdLoopK(i, k + 1, nn)
    ELSE <<>>

RECURSIVE StdLoopI(_, _)
StdLoopI(i, nn) ==
  IF i < nn
    THEN StdLoopK(i, 0, nn) \o StdLoopI(i + 1, nn)
    ELSE <<>>

\* a plausible slip: the i-j-k order (reduction innermost) instead of i-k-j
StandardScheduleIJK(nn) ==
  LET RECURSIVE K(_, _, _), J(_, _), I(_)
      K(i, j, k) == IF k < nn THEN <<Step(0, 0, 0, i, k, j)>> \o K(i, j, k + 1) ELSE <<>>
      J(i, j) == IF j < nn THEN K(i, j, 0) \o J(i, j + 1) ELSE <<>>
      I(i) == IF i < nn THEN J(i, 0) \o I(i + 1) ELSE <<>>
  IN I(0)

StandardSchedule(nn) == StdLoopI(0, nn)

\* An element access m[i][j] is inside an nn x nn matrix.
InRange(e, nn) ==
  /\ e.i \in 0 .. nn - 1
  /\ e.k \in 0 .. nn - 1
  /\ e.j \in 0 .. nn - 1

\* a plausible slip: the accumulation lands in A
MACIntoA(m, e) ==
  [m EXCEPT !["A"][e.i][e.k] = @ + m["A"][e.i][e.k] * m["B"][e.k][e.j]]

\* C[i][j] += A[i][k] * B[k][j];   -- lines 22 and 36
MAC(m, e) ==
  [m EXCEPT !["C"][e.i][e.j] = @ + m["A"][e.i][e.k] * m["B"][e.k][e.j]]

\* A whole call: steps lo..hi of the schedule applied in order (the range is
\* halved only to bound the depth of the evaluation).  An access outside
\* the matrices is undefined behaviour: the call's result is then "ub".
RECURSIVE RunSchedule(_, _, _, _, _)
RunSchedule(r, sched, lo, hi, nn) ==
  IF r.ub \/ lo > hi THEN r
  ELSE IF lo = hi
    THEN IF InRange(sched[lo], nn)
           THEN [ub |-> FALSE, mem |-> MAC(r.mem, sched[lo])]
           ELSE [ub |-> TRUE, mem |-> r.mem]
  ELSE LET mid == (lo + hi) \div 2
           left == RunSchedule(r, sched, lo, mid, nn)
       IN RunSchedule(left, sched, mid + 1, hi, nn)

RunAll(m, sched, nn) == RunSchedule([ub |-> FALSE, mem |-> m], sched, 1, Len(sched), nn)

matrix_multiply_blocked(m, nn, S) == RunAll(m, BlockedSchedule(nn, S), nn)

matrix_multiply_standard(m, nn) == RunAll(m, StandardSchedule(nn), nn)

\* ------------------------------------------------------------------------
\* The C library's srand() / rand(): the values rand() returns are a fixed
\* function of the seed and of the number of calls since srand(); which
\* function is unknown to the program (g selects one of a family).
\* ------------------------------------------------------------------------

\* the c-th value rand() returns after srand(seed), c = 1, 2, ...
RandAt(g, seed, c) == (7 * seed + (2 * g + 3) * c + ((g + 1) * c * c) \div 3) % 64

\* srand(seed)
Srand(seed) == [seed |-> seed, calls |-> 0]

\* rand(): the value returned and the generator's state afterwards
Rand(g, st) ==
  [value |-> RandAt(g, st.seed, st.calls + 1),
   state |-> [st EXCEPT !.calls = @ + 1]]

\* (double)(rand() % 10) + 1.0
SeedValue(r) == (r % 10) + 1

\* What lines 55-62 leave in A, B and C of an nn x nn run: element (i, j) of
\* A takes rand() call number 2(i nn + j) + 1, that of B the next call.
SeededMem(g, seed, nn) ==
  [m \in Mats |-> [i \in 0 .. nn - 1 |-> [j \in 0 .. nn - 1 |->
     CASE m = "A" -> SeedValue(RandAt(g, seed, 2 * (i * nn + j) + 1))
       [] m = "B" -> SeedValue(RandAt(g, seed, 2 * (i * nn + j) + 2))
       [] OTHER -> 0]]]

ZeroC(m, nn) == [m EXCEPT !["C"] = [i \in 0 .. nn - 1 |-> [j \in 0 .. nn - 1 |-> 0]]]


\* ------------------------------------------------------------------------
\* SpecMul: matrix_multiply_blocked, then matrix_multiply_standard, on the
\* same A and B and an all-zero C, one multiply-accumulate per step.
\* ------------------------------------------------------------------------

\* The variables of main (mxm_bloc.c) before main runs.
DrvIdle ==
  /\ gen = 0 /\ randState = Srand(1)
  /\ tab = [m \in Mats |-> "none"]
  /\ row = [m \in Mats |-> [i \in 0 .. N - 1 |-> "none"]]
  /\ allocLog = <<>> /\ freeLog = <<>>
  /\ li = 0 /\ lj = 0 /\ bs_idx = 0
  /\ clk = 0 /\ start = 0 /\ standard_time = 0 /\ stWrites = <<>>
  /\ out = <<>> /\ fp = "closed" /\ exitStatus = 0 - 1 /\ diag = <<>>
  /\ phases = <<>> /\ lateAccess = FALSE

\* The variables of main (exercice1.c) before main runs.
StrIdle ==
  /\ a = <<>> /\ aState = "none" /\ i_stride = 0 /\ si = 0 /\ sum = 0
  /\ reads = <<>>

Square(nn, vals) == [0 .. nn - 1 -> [0 .. nn - 1 -> vals]]

\* Inputs: every pair of matrices over {1, 2} up to dimension 2, and the
\* matrices the seeding loop produces from a range of seeds and generators.
InputMems(nn) ==
  { SeededMem(g, seed, nn) : g \in 0 .. MaxGen, seed \in 0 .. MaxSeed }
  \cup
  (IF nn <= 2
     THEN { [m \in Mats |-> CASE m = "A" -> x [] m = "B" -> y
                                [] OTHER -> [i \in 0 .. nn - 1 |-> [j \in 0 .. nn - 1 |-> 0]]]
            : x \in Square(nn, {1, 2}), y \in Square(nn, {1, 2}) }
     ELSE {})

InitMul ==
  /\ n \in 1 .. MaxN
  /\ block_size \in 1 .. n
  /\ mem \in InputMems(n)
  /\ pc = "Blocked" /\ ub = FALSE
  /\ pos = 0 /\ trace = <<>> /\ blkC = <<>> /\ blkTrace = <<>>
  /\ DrvIdle /\ nullsLeft = 0 /\ StrIdle

\* One multiply-accumulate of the running multiplier, whose schedule is
\* sched.  An index outside the matrices is undefined behaviour.
MulStep(sched) ==
  LET e == sched[pos + 1] IN
  /\ pos < Len(sched)
  /\ trace' = Append(trace, e)
  /\ IF InRange(e, n)
       THEN /\ mem' = MAC(mem, e)
            /\ pos' = pos + 1
            /\ UNCHANGED <<pc, ub>>
       ELSE /\ ub' = TRUE
            /\ pc' = "Undefined"
            /\ UNCHANGED <<mem, pos>>
  /\ UNCHANGED <<n, block_size, blkC, blkTrace>>
  /\ UNCHANGED drvVars /\ UNCHANGED strVars

BlockedStep ==
  /\ pc = "Blocked"
  /\ MulStep(BlockedSchedule(n, block_size))

\* matrix_multiply_blocked returns; C is cleared for the reference run.
BlockedReturn ==
  /\ pc = "Blocked"
  /\ pos = Len(BlockedSchedule(n, block_size))
  /\ blkC' = mem["C"]
  /\ blkTrace' = trace
  /\ mem' = ZeroC(mem, n)
  /\ pos' = 0 /\ trace' = <<>>
  /\ pc' = "Standard"
  /\ UNCHANGED <<ub, n, block_size>>
  /\ UNCHANGED drvVars /\ UNCHANGED strVars

StandardStep ==
  /\ pc = "Standard"
  /\ MulStep(StandardSchedule(n))

StandardReturn ==
  /\ pc = "Standard"
  /\ pos = Len(StandardSchedule(n))
  /\ pc' = "Compared"
  /\ UNCHANGED <<mem, ub>> /\ UNCHANGED mulVars
  /\ UNCHANGED drvVars /\ UNCHANGED strVars

NextMul == BlockedStep \/ BlockedReturn \/ StandardStep \/ StandardReturn

SpecMul == InitMul /\ [][NextMul]_vars


\* ---- properties of the multipliers (checked under SpecMul) ----

\* the tiles (ii, jj, kk) a sequence of steps belongs to
Tiles(tr) == { <<tr[p].ii, tr[p].jj, tr[p].kk>> : p \in 1 .. Len(tr) }

StepsOfTile(tr, t) ==
  { p \in 1 .. Len(tr) : <<tr[p].ii, tr[p].jj, tr[p].kk>> = t }

\* the extent the claim gives the tile starting at t0 along one axis
ClaimedExtent(t0, nn, S) ==
  IF nn % S = 0 THEN S
  ELSE IF t0 + S >= nn THEN nn % S ELSE S

TileStarts(nn, S) == { x \in 0 .. nn - 1 : x % S = 0 }

\* C1: for every n, every S in 1..n and every A, B, the C that
\* matrix_multiply_blocked leaves from an all-zero C equals, element by
\* element, the C that matrix_multiply_standard leaves from an all-zero C.
C1_BlockedEqualsStandard ==
  /\ pc # "Undefined"
  /\ pc = "Compared" => mem["C"] = blkC

\* n = 4 with S = 3: the last tile along each axis has extent 1
C1_Witness ==
  /\ pc = "Compared" /\ n = 4 /\ block_size = 3
  /\ mem["C"] = blkC
  /\ \E i \in 0 .. 2, j \in 0 .. 2 : blkC[i][j] > 3

\* C2: in matrix_multiply_blocked every index i, j, k used to access A, B
\* or C lies in 0..n-1; every tile has extent S along each axis when S
\* divides n, and otherwise the last tile along an axis has extent n mod S
\* along it and every other tile extent S.
C2_IndicesInRangeAndTileExtents ==
  /\ ~ub
  /\ \A p \in 1 .. Len(trace) : InRange(trace[p], n)
  /\ pc \in {"Standard", "Compared"} =>
       /\ Tiles(blkTrace) =
            TileStarts(n, block_size) \X TileStarts(n, block_size) \X TileStarts(n, block_size)
       /\ \A t \in Tiles(blkTrace) :
            LET ps == StepsOfTile(blkTrace, t) IN
            /\ Cardinality({ blkTrace[p].i : p \in ps }) = ClaimedExtent(t[1], n, block_size)
            /\ Cardinality({ blkTrace[p].j : p \in ps }) = ClaimedExtent(t[2], n, block_size)
            /\ Cardinality({ blkTrace[p].k : p \in ps }) = ClaimedExtent(t[3], n, block_size)

\* a boundary tile has been processed: n = 3, S = 2, 8 tiles, 27 steps
C2_Witness ==
  /\ pc = "Standard" /\ n = 3 /\ block_size = 2
  /\ Len(blkTrace) = 27
  /\ <<2, 2, 2>> \in Tiles(blkTrace)
  /\ Cardinality(StepsOfTile(blkTrace, <<2, 0, 2>>)) = 2

\* C3: with S = n the block loops run once (the single tile 0, 0, 0), the
\* steps (i, k, j) of matrix_multiply_blocked are those of
\* matrix_multiply_standard in the same order, and both leave the same C.
C3_DegenerateBlockIsStandard ==
  (pc = "Compared" /\ block_size = n) =>
     /\ Tiles(blkTrace) = {<<0, 0, 0>>}
     /\ blkTrace = trace
     /\ blkC = mem["C"]

C3_Witness ==
  /\ pc = "Compared" /\ block_size = n /\ n = 3
  /\ Len(blkTrace) = 27 /\ blkTrace = trace


\* ------------------------------------------------------------------------
\* Spec: main() of mxm_bloc.c
\* ------------------------------------------------------------------------

\* int block_sizes[] = {8, 16, 32, 64, 128, 256} for N = 512: powers of two
\* below N, ascending (scaled to the model's N).
block_sizes == <<1, 2, 4>>

num_sizes == Len(block_sizes)

\* long long total_bytes = 4LL * N * N * N * sizeof(double)
total_bytes == 4 * N * N * N * 8

\* Floating-point values the metrics take: a finite ratio num/den, or what
\* IEEE division by zero gives (x/0 = inf for x > 0, 0/0 = NaN).
RECURSIVE GCD(_, _)
GCD(x, y) == IF y = 0 THEN x ELSE GCD(y, x % y)

\* the ratio x / y (x >= 0, y > 0) in lowest terms
Fin(x, y) == [kind |-> "fin", num |-> x \div GCD(x, y), den |-> y \div GCD(x, y)]

FDiv(x, y) ==
  IF y # 0 THEN Fin(x, y)
  ELSE IF x = 0 THEN [kind |-> "nan", num |-> 0, den |-> 0]
  ELSE [kind |-> "inf", num |-> 1, den |-> 0]

\* total_bytes * (1000.0 / msec) / (1024 * 1024)
Bandwidth(msec) ==
  LET q == FDiv(1000, msec) IN
  IF q.kind = "fin" THEN Fin(total_bytes * q.num, q.den * 1024 * 1024) ELSE q

IsOne(r) == r.kind = "fin" /\ r.num = r.den

\* a plausible slip: free(C[i]) is missing from the release loop
FreedPerRowLeakC == <<"A", "B">>

\* free(A[i]); free(B[i]); free(C[i]);  -- lines 143-145
FreedPerRow == <<"A", "B", "C">>

\* the order of the three malloc / free calls of one group  -- lines 44-51, 147-149
MatOrder == <<"A", "B", "C">>

Table(m) == <<m, 0 - 1>>
Row(m, i) == <<m, i>>

AllBlocks == { Table(m) : m \in Mats } \cup { Row(m, i) : m \in Mats, i \in 0 .. N - 1 }

\* the entries of seq whose matrix is not in f, in order
RECURSIVE Without(_, _)
Without(seq, f) ==
  IF seq = <<>> THEN <<>>
  ELSE (IF Head(seq) \in f THEN <<>> ELSE <<Head(seq)>>) \o Without(Tail(seq), f)

\* Row i of matrix m can be read or written: the table holds a pointer to a
\* live row buffer.
RowOK(m, i) == tab[m] = "live" /\ row[m][i] = "live"

AllRowsOK == \A m \in Mats, i \in 0 .. N - 1 : RowOK(m, i)

Init ==
  /\ pc = "AllocTables" /\ ub = FALSE
  /\ mem = [m \in Mats |-> [i \in 0 .. N - 1 |-> [j \in 0 .. N - 1 |-> Indet]]]
  /\ n = N /\ block_size = 0 /\ pos = 0 /\ trace = <<>>
  /\ blkC = <<>> /\ blkTrace = <<>>
  /\ gen \in 0 .. MaxGen /\ randState = Srand(1)
  /\ tab = [m \in Mats |-> "none"]
  /\ row = [m \in Mats |-> [i \in 0 .. N - 1 |-> "none"]]
  /\ allocLog = <<>> /\ freeLog = <<>> /\ nullsLeft = MaxAllocFailures
  /\ li = 0 /\ lj = 0 /\ bs_idx = 0
  /\ clk = 0 /\ start = 0 /\ standard_time = 0 /\ stWrites = <<>>
  /\ out = <<>> /\ fp = "closed" /\ exitStatus = 0 - 1 /\ diag = <<>>
  /\ phases = <<>> /\ lateAccess = FALSE
  /\ StrIdle

\* An access through a null, dangling or out-of-range pointer: the process
\* is killed by a signal, or goes on in a state the language does not define.
Undefined(others) ==
  /\ ub' = TRUE
  /\ pc' \in {"Trapped", "Undefined"}
  /\ UNCHANGED others

\* The mallocs of a group fail for the matrices in f.
MallocFails(f) == Cardinality(f) <= nullsLeft

\* lines 44-46: the three row-pointer tables
AllocTables ==
  /\ pc = "AllocTables"
  /\ \E f \in SUBSET Mats :
       /\ MallocFails(f)
       /\ tab' = [m \in Mats |-> IF m \in f THEN "null" ELSE "live"]
       /\ allocLog' = allocLog \o [p \in 1 .. Len(Without(MatOrder, f)) |->
                                     Table(Without(MatOrder, f)[p])]
       /\ nullsLeft' = nullsLeft - Cardinality(f)
  /\ pc' = "AllocRows" /\ li' = 0
  /\ phases' = Append(phases, "alloc")
  /\ UNCHANGED <<mem, ub, randState, row, freeLog, lj, bs_idx, clk, start,
                 standard_time, stWrites, out, fp, exitStatus, diag, lateAccess, gen>>
  /\ UNCHANGED mulVars /\ UNCHANGED strVars

\* lines 48-52, one iteration: A[i] = malloc(..); B[i] = ..; C[i] = ..;
\* each result is stored through the table, unchecked.
AllocRow ==
  /\ pc = "AllocRows" /\ li < N
  /\ IF \E m \in Mats : tab[m] # "live"
       THEN Undefined(<<mem, randState, tab, row, allocLog, freeLog, nullsLeft, li, lj,
                        bs_idx, clk, start, standard_time, stWrites, out, fp,
                        exitStatus, diag, phases, lateAccess, gen>>)
       ELSE /\ \E f \in SUBSET Mats :
                 /\ MallocFails(f)
                 /\ row' = [m \in Mats |->
                              [row[m] EXCEPT ![li] = IF m \in f THEN "null" ELSE "live"]]
                 /\ allocLog' = allocLog \o [p \in 1 .. Len(Without(MatOrder, f)) |->
                                               Row(Without(MatOrder, f)[p], li)]
                 /\ nullsLeft' = nullsLeft - Cardinality(f)
            /\ li' = li + 1
            /\ UNCHANGED <<pc, ub, mem, randState, tab, freeLog, lj, bs_idx, clk, start,
                           standard_time, stWrites, out, fp, exitStatus, diag, phases,
                           lateAccess, gen>>
  /\ UNCHANGED mulVars /\ UNCHANGED strVars

\* line 48 exit, line 55: srand(42)
AllocRowsDone ==
  /\ pc = "AllocRows" /\ li = N
  /\ randState' = Srand(42)
  /\ pc' = "Seed" /\ li' = 0 /\ lj' = 0
  /\ phases' = Append(phases, "seed")
  /\ UNCHANGED <<mem, ub, tab, row, allocLog, freeLog, nullsLeft, bs_idx, clk, start,
                 standard_time, stWrites, out, fp, exitStatus, diag, lateAccess, gen>>
  /\ UNCHANGED mulVars /\ UNCHANGED strVars

\* the loop counters after one iteration of a  for i { for j { .. } }  nest
NextIJ == IF lj + 1 < N THEN <<li, lj + 1>> ELSE <<li + 1, 0>>

\* lines 58-60, one iteration of the seeding loop
SeedElem ==
  /\ pc = "Seed" /\ li < N
  /\ IF ~(\A m \in Mats : RowOK(m, li))
       THEN Undefined(<<mem, randState, tab, row, allocLog, freeLog, nullsLeft, li, lj,
                        bs_idx, clk, start, standard_time, stWrites, out, fp,
                        exitStatus, diag, phases, lateAccess, gen>>)
       ELSE LET r1 == Rand(gen, randState)
                r2 == Rand(gen, r1.state)
            IN /\ mem' = [mem EXCEPT !["A"][li][lj] = SeedValue(r1.value),
                                     !["B"][li][lj] = SeedValue(r2.value),
                                     !["C"][li][lj] = 0]
               /\ randState' = r2.state
               /\ li' = NextIJ[1] /\ lj' = NextIJ[2]
               /\ lateAccess' = (lateAccess \/ freeLog # <<>>)
               /\ UNCHANGED <<pc, ub, tab, row, allocLog, freeLog, nullsLeft, bs_idx, clk,
                              start, standard_time, stWrites, out, fp, exitStatus, diag,
                              phases, gen>>
  /\ UNCHANGED mulVars /\ UNCHANGED strVars

\* lines 65-85: fopen succeeds; headers; standard_time = 0; sweep starts
OpenFileOk ==
  /\ pc = "Seed" /\ li = N
  /\ fp' = "open"
  /\ standard_time' = 0
  /\ bs_idx' = 0
  /\ pc' = "SweepHead"
  /\ UNCHANGED <<mem, ub, randState, tab, row, allocLog, freeLog, nullsLeft, li, lj,
                 clk, start, stWrites, out, exitStatus, diag, phases, lateAccess, gen>>
  /\ UNCHANGED mulVars /\ UNCHANGED strVars

\* lines 66-69: fopen returns NULL; diagnostic; exit(EXIT_FAILURE)
OpenFileFail ==
  /\ pc = "Seed" /\ li = N
  /\ diag' = Append(diag, "Error opening file!")
  /\ exitStatus' = 1
  /\ pc' = "Exited"
  /\ UNCHANGED <<mem, ub, randState, tab, row, allocLog, freeLog, nullsLeft, li, lj,
                 bs_idx, clk, start, standard_time, stWrites, out, fp, phases,
                 lateAccess, gen>>
  /\ UNCHANGED mulVars /\ UNCHANGED strVars


\* line 87 (condition true), line 88: the next configuration
SweepNext ==
  /\ pc = "SweepHead" /\ bs_idx < num_sizes
  /\ block_size' = block_sizes[bs_idx + 1]
  /\ pc' = "Clear" /\ li' = 0 /\ lj' = 0
  /\ phases' = Append(phases, "sweep")
  /\ UNCHANGED <<mem, ub, randState, tab, row, allocLog, freeLog, nullsLeft, bs_idx,
                 clk, start, standard_time, stWrites, out, fp, exitStatus, diag,
                 lateAccess, gen>>
  /\ UNCHANGED <<n, pos, trace, blkC, blkTrace>> /\ UNCHANGED strVars

\* line 87 (condition false): the sweep is over, the final run begins
SweepExit ==
  /\ pc = "SweepHead" /\ bs_idx >= num_sizes
  /\ pc' = "FinalClear" /\ li' = 0 /\ lj' = 0
  /\ phases' = Append(phases, "final")
  /\ UNCHANGED <<mem, ub, randState, tab, row, allocLog, freeLog, nullsLeft, bs_idx,
                 clk, start, standard_time, stWrites, out, fp, exitStatus, diag,
                 lateAccess, gen>>
  /\ UNCHANGED mulVars /\ UNCHANGED strVars

\* a plausible slip: C is not cleared between runs
ClearedNot(m, i, j) == m

\* C[i][j] = 0.0;  -- lines 93 and 125
Cleared(m, i, j) == [m EXCEPT !["C"][i][j] = 0]

\* one iteration of a clearing loop
ClearStep ==
  /\ li < N
  /\ IF ~RowOK("C", li)
       THEN Undefined(<<mem, randState, tab, row, allocLog, freeLog, nullsLeft, li, lj,
                        bs_idx, clk, start, standard_time, stWrites, out, fp,
                        exitStatus, diag, phases, lateAccess, gen>>)
       ELSE /\ mem' = Cleared(mem, li, lj)
            /\ li' = NextIJ[1] /\ lj' = NextIJ[2]
            /\ lateAccess' = (lateAccess \/ freeLog # <<>>)
            /\ UNCHANGED <<pc, ub, randState, tab, row, allocLog, freeLog, nullsLeft,
                           bs_idx, clk, start, standard_time, stWrites, out, fp,
                           exitStatus, diag, phases, gen>>
  /\ UNCHANGED mulVars /\ UNCHANGED strVars

\* the clearing loop is over; double start = (double)clock() / CLOCKS_PER_SEC
\* (the model's clock counts whole seconds)
ClockStart(next) ==
  /\ li = N
  /\ start' = clk
  /\ pc' = next
  /\ UNCHANGED <<mem, ub, randState, tab, row, allocLog, freeLog, nullsLeft, li, lj,
                 bs_idx, clk, standard_time, stWrites, out, fp, exitStatus, diag,
                 phases, lateAccess, gen>>
  /\ UNCHANGED mulVars /\ UNCHANGED strVars

\* lines 91-95
ClearElem == pc = "Clear" /\ ClearStep

\* line 98
SweepClock == pc = "Clear" /\ ClockStart("Multiply")

\* A timed call of a multiplier: res is what the call computes; processor
\* time advances by the call's duration.
TimedCall(res, next) ==
  IF ~AllRowsOK \/ res.ub
    THEN Undefined(<<mem, randState, tab, row, allocLog, freeLog, nullsLeft, li, lj,
                     bs_idx, clk, start, standard_time, stWrites, out, fp,
                     exitStatus, diag, phases, lateAccess, gen>>)
    ELSE /\ mem' = res.mem
         /\ \E d \in 0 .. MaxElapsed : clk' = clk + d
         /\ pc' = next
         /\ lateAccess' = (lateAccess \/ freeLog # <<>>)
         /\ UNCHANGED <<ub, randState, tab, row, allocLog, freeLog, nullsLeft, li, lj,
                        bs_idx, start, standard_time, stWrites, out, fp,
                        exitStatus, diag, phases, gen>>

\* lines 100-105 (the literal 512 is N)
Multiply ==
  /\ pc = "Multiply"
  /\ TimedCall(IF block_size = N
                 THEN matrix_multiply_standard(mem, N)
                 ELSE matrix_multiply_blocked(mem, N, block_size), "Metrics")
  /\ UNCHANGED mulVars /\ UNCHANGED strVars

\* lines 107-120: end sample, msec, bandwidth, baseline, speedup, the record
Metrics ==
  /\ pc = "Metrics"
  /\ LET end == clk
         msec == (end - start) * 1000
         bandwidth == Bandwidth(msec)
         baseline == IF block_size = N \/ bs_idx = 0 THEN msec ELSE standard_time
         speedup == FDiv(baseline, msec)
     IN /\ standard_time' = baseline
        /\ stWrites' = IF block_size = N \/ bs_idx = 0
                         THEN Append(stWrites, bs_idx) ELSE stWrites
        /\ out' = Append(out, [kind |-> "sweep", block_size |-> block_size,
                               msec |-> msec, bandwidth |-> bandwidth,
                               speedup |-> speedup])
  /\ bs_idx' = bs_idx + 1
  /\ pc' = "SweepHead"
  /\ UNCHANGED <<mem, ub, randState, tab, row, allocLog, freeLog, nullsLeft, li, lj,
                 clk, start, fp, exitStatus, diag, phases, lateAccess, gen>>
  /\ UNCHANGED mulVars /\ UNCHANGED strVars

\* lines 123-127
FinalClearElem == pc = "FinalClear" /\ ClearStep

\* line 129
FinalClock == pc = "FinalClear" /\ ClockStart("FinalMultiply")

\* line 130
FinalMultiply ==
  /\ pc = "FinalMultiply"
  /\ TimedCall(matrix_multiply_standard(mem, N), "FinalMetrics")
  /\ UNCHANGED mulVars /\ UNCHANGED strVars

\* lines 131-139: end sample, msec, bandwidth, the record (speedup 1.0), fclose
FinalMetrics ==
  /\ pc = "FinalMetrics"
  /\ LET end == clk
         msec == (end - start) * 1000
     IN out' = Append(out, [kind |-> "final", block_size |-> N,
                            msec |-> msec, bandwidth |-> Bandwidth(msec),
                            speedup |-> Fin(1, 1)])
  /\ fp' = "closed"
  /\ pc' = "FreeRows" /\ li' = 0
  /\ phases' = Append(phases, "release")
  /\ UNCHANGED <<mem, ub, randState, tab, row, allocLog, freeLog, nullsLeft, lj,
                 bs_idx, clk, start, standard_time, stWrites, exitStatus, diag,
                 lateAccess, gen>>
  /\ UNCHANGED mulVars /\ UNCHANGED strVars

\* lines 142-146, one iteration: the row pointers are read through the
\* tables and the row buffers freed.
FreeRow ==
  /\ pc = "FreeRows" /\ li < N
  /\ IF \E p \in 1 .. Len(FreedPerRow) : ~RowOK(FreedPerRow[p], li)
       THEN Undefined(<<mem, randState, tab, row, allocLog, freeLog, nullsLeft, li, lj,
                        bs_idx, clk, start, standard_time, stWrites, out, fp,
                        exitStatus, diag, phases, lateAccess, gen>>)
       ELSE /\ row' = [m \in Mats |->
                         IF \E p \in 1 .. Len(FreedPerRow) : FreedPerRow[p] = m
                           THEN [row[m] EXCEPT ![li] = "freed"] ELSE row[m]]
            /\ freeLog' = freeLog \o [p \in 1 .. Len(FreedPerRow) |-> Row(FreedPerRow[p], li)]
            /\ li' = li + 1
            /\ UNCHANGED <<pc, ub, mem, randState, tab, allocLog, nullsLeft, lj, bs_idx,
                           clk, start, standard_time, stWrites, out, fp, exitStatus,
                           diag, phases, lateAccess, gen>>
  /\ UNCHANGED mulVars /\ UNCHANGED strVars

\* lines 147-151: free(A); free(B); free(C); return 0;
FreeTables ==
  /\ pc = "FreeRows" /\ li = N
  /\ IF \E m \in Mats : tab[m] # "live"
       THEN Undefined(<<mem, randState, tab, row, allocLog, freeLog, nullsLeft, li, lj,
                        bs_idx, clk, start, standard_time, stWrites, out, fp,
                        exitStatus, diag, phases, lateAccess, gen>>)
       ELSE /\ tab' = [m \in Mats |-> "freed"]
            /\ freeLog' = freeLog \o [p \in 1 .. Len(MatOrder) |-> Table(MatOrder[p])]
            /\ exitStatus' = 0
            /\ pc' = "Done"
            /\ UNCHANGED <<ub, mem, randState, row, allocLog, nullsLeft, li, lj, bs_idx,
                           clk, start, standard_time, stWrites, out, fp, diag, phases,
                           lateAccess, gen>>
  /\ UNCHANGED mulVars /\ UNCHANGED strVars

Next ==
  \/ AllocTables \/ AllocRow \/ AllocRowsDone \/ SeedElem
  \/ OpenFileOk \/ OpenFileFail
  \/ SweepNext \/ SweepExit \/ ClearElem \/ SweepClock \/ Multiply \/ Metrics
  \/ FinalClearElem \/ FinalClock \/ FinalMultiply \/ FinalMetrics
  \/ FreeRow \/ FreeTables

Spec == Init /\ [][Next]_vars


\* ---- properties of the driver (checked under Spec) ----

\* the mathematical product: (X Y)[i][j] = sum over k of X[i][k] Y[k][j]
RECURSIVE SumK(_, _, _, _, _)
SumK(X, Y, i, j, k) ==
  IF k < 0 THEN 0 ELSE X[i][k] * Y[k][j] + SumK(X, Y, i, j, k - 1)

Product(X, Y, nn) ==
  [i \in 0 .. nn - 1 |-> [j \in 0 .. nn - 1 |-> SumK(X, Y, i, j, nn - 1)]]

ZeroMatrix(nn) == [i \in 0 .. nn - 1 |-> [j \in 0 .. nn - 1 |-> 0]]

Count(seq, x) == Cardinality({ p \in 1 .. Len(seq) : seq[p] = x })

IndexOf(seq, x) == CHOOSE p \in 1 .. Len(seq) : seq[p] = x

IsPrefix(s1, s2) ==
  /\ Len(s1) <= Len(s2)
  /\ \A p \in 1 .. Len(s1) : s1[p] = s2[p]

ExpectedPhases ==
  <<"alloc", "seed">> \o [p \in 1 .. num_sizes |-> "sweep"] \o <<"final", "release">>

SomeAllocationFailed ==
  \E m \in Mats : tab[m] = "null" \/ \E i \in 0 .. N - 1 : row[m][i] = "null"

\* C4: if an allocation of a row-pointer table or of a row buffer returns
\* null, the process terminates at once with a diagnostic and a nonzero exit
\* status, before anything is accessed through the failed allocation.
C4_AllocFailureIsFatal ==
  SomeAllocationFailed =>
    /\ pc = "Exited" /\ exitStatus > 0 /\ diag # <<>>
    /\ ~ub

\* C5: for every pair of clock samples with end >= start, end = start
\* included, neither the bandwidth nor the speedup computation divides by
\* zero, in any sweep configuration or in the final run.
C5_NoDivisionByZero ==
  \A p \in 1 .. Len(out) :
    /\ out[p].bandwidth.kind = "fin"
    /\ out[p].speedup.kind = "fin"

\* C6: during the sweep standard_time is written exactly once, by the first
\* configuration; every swept record's speedup is that baseline divided by
\* the record's elapsed time, and the first swept record has speedup 1.
C6_BaselineOnceFirstSpeedupOne ==
  /\ Len(stWrites) <= 1
  /\ out # <<>> =>
       /\ stWrites = <<0>>
       /\ standard_time = out[1].msec
       /\ \A p \in 1 .. Len(out) :
            out[p].kind = "sweep" => out[p].speedup = FDiv(out[1].msec, out[p].msec)
       /\ IsOne(out[1].speedup)

\* what a step that is a call of a multiplier leaves unchanged
MultiplierFrame ==
  pc \in {"Multiply", "FinalMultiply"} =>
     (/\ mem'["A"] = mem["A"] /\ mem'["B"] = mem["B"]
      /\ tab' = tab /\ row' = row
      /\ allocLog' = allocLog /\ freeLog' = freeLog)

\* C7: a call of matrix_multiply_blocked or matrix_multiply_standard writes
\* no element of A or B, changes no row pointer and allocates or frees
\* nothing; so at every timed call and at its return A and B hold the
\* values the seeding loop gave them.
C7_MultipliersOnlyWriteC ==
  /\ [][MultiplierFrame]_vars
  /\ [](pc \in {"Multiply", "Metrics", "FinalMultiply", "FinalMetrics"} =>
          /\ mem["A"] = SeededMem(gen, 42, N)["A"]
          /\ mem["B"] = SeededMem(gen, 42, N)["B"])

C7_Witness ==
  /\ pc = "FinalMetrics"
  /\ Len(out) = num_sizes
  /\ mem["A"] = SeededMem(gen, 42, N)["A"]
  /\ mem["C"][0][0] > 0

\* C9: when a timed multiplication starts (each sweep configuration and the
\* final run) every element of C is 0, and when it ends C is exactly the
\* product of the seeded A and B.
C9_EachRunStartsFromZeroC ==
  /\ pc \in {"Multiply", "FinalMultiply"} => mem["C"] = ZeroMatrix(N)
  /\ pc \in {"Metrics", "FinalMetrics"} =>
       mem["C"] = Product(SeededMem(gen, 42, N)["A"], SeededMem(gen, 42, N)["B"], N)

\* the second configuration's multiplication has ended
C9_Witness ==
  /\ pc = "Metrics" /\ bs_idx = 1
  /\ mem["C"] = Product(mem["A"], mem["B"], N)
  /\ mem["C"][N - 1][N - 1] >= N

\* C10: a run that ends with exit status 0 went, in this order and without
\* re-entering a phase, through allocation, seeding, one sweep step per
\* block size in list order, the final unblocked run and release; each of
\* the 3N row buffers and 3 tables was allocated once and freed once, every
\* row buffer before its table, and no element was accessed after the first
\* free.
C10_LinearLifecycle ==
  /\ IsPrefix(phases, ExpectedPhases)
  /\ ~lateAccess
  /\ exitStatus = 0 => pc = "Done"
  /\ pc = "Done" =>
       /\ exitStatus = 0
       /\ phases = ExpectedPhases
       /\ Len(out) = num_sizes + 1
       /\ \A p \in 1 .. num_sizes :
            out[p].kind = "sweep" /\ out[p].block_size = block_sizes[p]
       /\ out[num_sizes + 1].kind = "final"
       /\ \A b \in AllBlocks : Count(allocLog, b) = 1 /\ Count(freeLog, b) = 1
       /\ \A m \in Mats, i \in 0 .. N - 1 :
            IndexOf(freeLog, Row(m, i)) < IndexOf(freeLog, Table(m))

C10_Witness ==
  /\ pc = "Done" /\ exitStatus = 0
  /\ Len(freeLog) = 3 * N + 3
  /\ Len(out) = num_sizes + 1


\* ------------------------------------------------------------------------
\* SpecStride: main() of exercice1.c  (its N is NTouch here)
\* ------------------------------------------------------------------------

\* the number of elements allocated: N * MAX_STRIDE
ArrayLen == NTouch * MAX_STRIDE

InitStride ==
  /\ pc = "StrAlloc" /\ ub = FALSE
  /\ mem = <<>>
  /\ n = 0 /\ block_size = 0 /\ pos = 0 /\ trace = <<>>
  /\ blkC = <<>> /\ blkTrace = <<>>
  /\ DrvIdle /\ nullsLeft = MaxAllocFailures
  /\ StrIdle

\* line 13: a = malloc(N * MAX_STRIDE * sizeof(double)), unchecked
StrMalloc ==
  /\ pc = "StrAlloc"
  /\ \E fails \in {b \in BOOLEAN : b => nullsLeft > 0} :
       /\ aState' = IF fails THEN "null" ELSE "live"
       /\ a' = IF fails THEN <<>> ELSE [x \in 0 .. ArrayLen - 1 |-> Indet]
       /\ nullsLeft' = IF fails THEN nullsLeft - 1 ELSE nullsLeft
  /\ pc' = "StrInit" /\ si' = 0
  /\ UNCHANGED <<mem, ub, i_stride, sum, reads>>
  /\ UNCHANGED mulVars
  /\ UNCHANGED <<gen, randState, tab, row, allocLog, freeLog, li, lj, bs_idx, clk,
                 start, standard_time, stWrites, out, fp, exitStatus, diag, phases,
                 lateAccess>>

\* a[x] can be accessed
ElemOK(x) == aState = "live" /\ x \in DOMAIN a

\* lines 17-18, one iteration: a[i] = 1.
StrInitElem ==
  /\ pc = "StrInit" /\ si < NTouch * MAX_STRIDE
  /\ IF ~ElemOK(si)
       THEN Undefined(<<mem, a, aState, i_stride, si, sum, reads>>)
       ELSE /\ a' = [a EXCEPT ![si] = 1]
            /\ si' = si + 1
            /\ UNCHANGED <<pc, ub, mem, aState, i_stride, sum, reads>>
  /\ UNCHANGED mulVars /\ UNCHANGED drvVars

\* line 17 exit, line 20, line 22 initialisation
StrInitDone ==
  /\ pc = "StrInit" /\ si >= NTouch * MAX_STRIDE
  /\ i_stride' = 1
  /\ pc' = "StrideHead"
  /\ UNCHANGED <<mem, ub, a, aState, si, sum, reads>>
  /\ UNCHANGED mulVars /\ UNCHANGED drvVars

\* line 22 (condition true), lines 24-25, line 28 initialisation
StrideBegin ==
  /\ pc = "StrideHead" /\ i_stride <= MAX_STRIDE
  /\ sum' = 0
  /\ start' = clk
  /\ si' = 0
  /\ reads' = <<>>
  /\ pc' = "StrideLoop"
  /\ UNCHANGED <<mem, ub, a, aState, i_stride>>
  /\ UNCHANGED mulVars
  /\ UNCHANGED <<gen, randState, tab, row, allocLog, freeLog, nullsLeft, li, lj,
                 bs_idx, clk, standard_time, stWrites, out, fp, exitStatus, diag,
                 phases, lateAccess>>

\* a plausible slip: <= in the loop condition
StrideCondInclusive(x, s) == x <= NTouch * s

\* i < N * i_stride  -- line 28
StrideCond(x, s) == x < NTouch * s

\* lines 28-29, one iteration: sum += a[i]; i += i_stride.  Reading an
\* element never written yields an indeterminate value.
StrideRead ==
  /\ pc = "StrideLoop" /\ StrideCond(si, i_stride)
  /\ reads' = Append(reads, si)
  /\ IF ~ElemOK(si)
       THEN Undefined(<<mem, a, aState, i_stride, si, sum>>)
       ELSE /\ \E v \in (IF a[si] = Indet THEN {0, 1, 2} ELSE {a[si]}) : sum' = sum + v
            /\ si' = si + i_stride
            /\ UNCHANGED <<pc, ub, mem, a, aState, i_stride>>
  /\ UNCHANGED mulVars /\ UNCHANGED drvVars

\* line 28 exit, lines 31-35 (end sample, msec, rate, the line printed; out
\* keeps the last line only), line 22 increment
StrideEnd ==
  /\ pc = "StrideLoop" /\ ~StrideCond(si, i_stride)
  /\ \E d \in 0 .. MaxElapsed :
       /\ clk' = clk + d
       /\ LET msec == (clk' - start) * 1000
              q == FDiv(1000, msec)
              rate == IF q.kind = "fin"
                        THEN Fin(8 * NTouch * q.num, q.den * 1024 * 1024) ELSE q
          IN out' = <<[i_stride |-> i_stride, sum |-> sum, msec |-> msec, rate |-> rate]>>
  /\ i_stride' = i_stride + 1
  /\ pc' = "StrideHead"
  /\ UNCHANGED <<mem, ub, a, aState, si, sum, reads>>
  /\ UNCHANGED mulVars
  /\ UNCHANGED <<gen, randState, tab, row, allocLog, freeLog, nullsLeft, li, lj,
                 bs_idx, start, standard_time, stWrites, fp, exitStatus, diag, phases,
                 lateAccess>>

\* line 22 (condition false), line 37: free(a); main returns
StrFree ==
  /\ pc = "StrideHead" /\ i_stride > MAX_STRIDE
  /\ aState' = "freed"
  /\ exitStatus' = 0
  /\ pc' = "StrDone"
  /\ UNCHANGED <<mem, ub, a, i_stride, si, sum, reads>>
  /\ UNCHANGED mulVars
  /\ UNCHANGED <<gen, randState, tab, row, allocLog, freeLog, nullsLeft, li, lj,
                 bs_idx, clk, start, standard_time, stWrites, out, fp, diag, phases,
                 lateAccess>>

NextStride ==
  \/ StrMalloc \/ StrInitElem \/ StrInitDone
  \/ StrideBegin \/ StrideRead \/ StrideEnd \/ StrFree

SpecStride == InitStride /\ [][NextStride]_vars

\* ---- properties of the stride experiment (checked under SpecStride) ----

\* the indices 0, s, 2s, ..., (count - 1) s
StrideIndices(count, s) == [p \in 1 .. count |-> (p - 1) * s]

\* C8: for every stride s in 1..MAX_STRIDE the inner loop reads exactly N
\* elements, at indices 0, s, ..., (N-1) s, each inside the allocated and
\* initialised buffer of N * MAX_STRIDE elements.
C8_StrideReadsNElementsInBounds ==
  /\ \A p \in 1 .. Len(reads) :
       /\ aState = "live" \/ pc = "StrDone"
       /\ reads[p] \in 0 .. NTouch * MAX_STRIDE - 1
       /\ reads[p] \in DOMAIN a /\ a[reads[p]] = 1
  /\ pc = "StrideLoop" =>
       /\ i_stride \in 1 .. MAX_STRIDE
       /\ Len(reads) <= NTouch
       /\ reads = StrideIndices(Len(reads), i_stride)
  /\ (pc = "StrideHead" /\ i_stride > 1) =>
       /\ reads = StrideIndices(NTouch, i_stride - 1)
       /\ sum = NTouch

\* the loop of the largest stride has ended
C8_Witness ==
  /\ pc = "StrideHead" /\ i_stride = MAX_STRIDE + 1
  /\ Len(reads) = NTouch
  /\ reads[NTouch] = (NTouch - 1) * MAX_STRIDE

=============================================================================
